---- MODULE Spec2Model ----
(***************************************************************************)
(* A model of groq_transcribe: the two file validators                     *)
(* (utils.validate_audio_file and GroqTranscriber._get_audio_details /     *)
(* _validate_audio_file), GroqTranscriber.__init__, transcribe and         *)
(* batch_transcribe, utils.export_transcription, and the command           *)
(* transcribe_cli.                                                         *)
(*                                                                         *)
(* Units.  Durations are kept in whole milliseconds (frames*1000 \div      *)
(* rate): for an integer bound n, floor(x) < n iff x < n, so the code's    *)
(* comparison duration < 0.01 s is exactly duration_ms < 10.  Sizes are    *)
(* kept in bytes: file_size_mb > 25 iff bytes > 25 * 1024 * 1024.          *)
(*                                                                         *)
(* The filesystem does not change while one run is in progress.            *)
(***************************************************************************)
EXTENDS Integers, Sequences, FiniteSets, TLC

\* ---------------------------------------------------------------- bounds
\* Largest number of input paths given to transcribe_cli / batch_transcribe.
MaxFiles == 2

\* ------------------------------------------------------ program constants
SUPPORTED_MODELS == {"whisper-large-v3-turbo", "distil-whisper-large-v3-en", "whisper-large-v3"}

SUPPORTED_FORMATS == {"json", "verbose_json", "text"}

SUPPORTED_EXTENSIONS == {".mp3", ".mp4", ".mpeg", ".mpga", ".m4a", ".wav", ".webm"}

MAX_FILE_SIZE_MB == 25

\* MIN_FILE_LENGTH_SECONDS = 0.01, in milliseconds.
MIN_FILE_LENGTH_MS == 10

\* The choices click accepts for -f/--format.
CLI_FORMATS == {"json", "verbose_json", "text"}

\* Bytes in the megabyte the code divides by: (1024 * 1024).
BytesPerMB == 1024 * 1024

\* ------------------------------------------------------------ the inputs
\* A file as the code can observe it:
\*   exists    os.path.exists(path)
\*   ext       the extension as written in the path
\*   size      os.path.getsize(path), bytes
\*   sfOpen    sf.SoundFile(path) opens the file
\*   mu        mutagen.File(path): "info" (an object with .info), "none"
\*             (None or an object without .info), "raise"
\*   wavOpen   wave.open(path) opens the file
\*   frames, rate, channels   what the readers that open it report
Rates == {0, 16000}

Exts == {".wav", ".MP3", ".txt"}

Sizes == {MAX_FILE_SIZE_MB * BytesPerMB, MAX_FILE_SIZE_MB * BytesPerMB + 1}

\* 159 frames at 16 kHz is 9.9 ms, 160 frames is 10 ms.
FrameCounts == {159, 160}

\* str.lower() on the extensions in Exts.
lower(e) ==
    IF e = ".MP3" THEN ".mp3" ELSE e

MissingFiles ==
    { [exists |-> FALSE, ext |-> e, size |-> 0, sfOpen |-> FALSE, mu |-> "raise",
       wavOpen |-> FALSE, frames |-> 0, rate |-> 0, channels |-> 1] : e \in Exts }

AllExisting ==
    [exists : {TRUE}, ext : Exts, size : Sizes, sfOpen : BOOLEAN,
     mu : {"info", "none", "raise"}, wavOpen : BOOLEAN,
     frames : FrameCounts, rate : Rates, channels : {1, 2}]

\* What no check of the code reads is fixed to one value, so that two files the
\* code cannot tell apart are one input.
Readable(f) ==
    f.sfOpen \/ f.mu = "info" \/ f.wavOpen

Canonical(f) ==
    /\ (lower(f.ext) # ".wav" => ~f.wavOpen)
    /\ (f.rate = 0 => f.mu # "info" /\ f.frames = 160 /\ f.channels = 2)
    /\ (f.rate = 0 => f.sfOpen \/ f.wavOpen)
    /\ (~Readable(f) => f.frames = 160 /\ f.channels = 1 /\ f.rate # 0)
    /\ (f.channels = 2 => f.frames = 160)
    /\ (lower(f.ext) \notin SUPPORTED_EXTENSIONS \/ f.size > MAX_FILE_SIZE_MB * BytesPerMB
          => f.sfOpen /\ f.mu = "info" /\ f.frames = 160 /\ f.channels = 1
             /\ f.rate # 0 /\ (f.wavOpen <=> lower(f.ext) = ".wav"))

ExistingFiles ==
    { f \in AllExisting : Canonical(f) }

FileKinds ==
    MissingFiles \cup ExistingFiles

\* ------------------------------------------------------------- validation
\* len(audio_file) / audio_file.samplerate, in milliseconds.
Duration(f) ==
    (f.frames * 1000) \div f.rate

DefaultDetails(f) ==
    [duration |-> 0, channels |-> 1, sample_rate |-> 0, file_size |-> f.size]

\* The outcome of a validation while it runs: the error raised ("none" while
\* none is), the audio_details dictionary, the checks performed so far, the
\* probing strategies attempted so far, the failure messages printed so far,
\* and whether a return statement has been reached.
Start(f) ==
    [err |-> "none", details |-> DefaultDetails(f), checks |-> <<>>,
     probed |-> <<>>, log |-> <<>>, returned |-> FALSE]

Raise(r, e) ==
    [r EXCEPT !.err = e]

Checked(r, c) ==
    [r EXCEPT !.checks = Append(@, c)]

\* Method 1: soundfile.  The division is the first statement of the block, so a
\* zero sample rate raises before audio_details is touched.
sf_probe(f, r) ==
    LET r1 == [r EXCEPT !.probed = Append(@, "soundfile")]
    IN  IF f.sfOpen /\ f.rate # 0
        THEN [r1 EXCEPT !.details.duration = Duration(f),
                        !.details.channels = f.channels,
                        !.details.sample_rate = f.rate,
                        !.returned = TRUE]
        ELSE [r1 EXCEPT !.log = Append(@, "Soundfile method failed")]

\* Method 2: mutagen.  When hasattr(audio_file, 'info') is false the block ends
\* without raising and without printing.
mutagen_probe(f, r) ==
    LET r1 == [r EXCEPT !.probed = Append(@, "mutagen")]
    IN  IF f.mu = "info"
        THEN [r1 EXCEPT !.details.duration = Duration(f),
                        !.details.channels = f.channels,
                        !.details.sample_rate = f.rate,
                        !.returned = TRUE]
        ELSE IF f.mu = "raise"
        THEN [r1 EXCEPT !.log = Append(@, "Mutagen method failed")]
        ELSE r1

\* Method 3: wave, for a .wav extension only.  channels and sample_rate are
\* assigned before the division, so a zero frame rate raises after them.
wave_probe(f, r) ==
    LET r1 == [r EXCEPT !.probed = Append(@, "wave")]
    IN  IF f.wavOpen /\ f.rate # 0
        THEN [r1 EXCEPT !.details.channels = f.channels,
                        !.details.sample_rate = f.rate,
                        !.details.duration = Duration(f),
                        !.returned = TRUE]
        ELSE IF f.wavOpen
        THEN [r1 EXCEPT !.details.channels = f.channels,
                        !.details.sample_rate = f.rate,
                        !.log = Append(@, "Wave method failed")]
        ELSE [r1 EXCEPT !.log = Append(@, "Wave method failed")]

\* The three methods in the order of the code; the first return ends the chain.
probe_chain(f, file_ext, r) ==
    LET a == sf_probe(f, r)
        b == IF a.returned THEN a ELSE mutagen_probe(f, a)
    IN  IF b.returned \/ file_ext # ".wav" THEN b ELSE wave_probe(f, b)

\* file_checks with the size test moved in front of the extension test.
file_checks_size_first(f, max_file_size_mb, supported_extensions) ==
    LET r0 == Checked(Start(f), "exists")
        r1 == Checked(r0, "size")
        r2 == Checked(r1, "extension")
    IN  IF ~f.exists THEN Raise(r0, "FileNotFound")
        ELSE IF f.size > max_file_size_mb * BytesPerMB THEN Raise(r1, "FileTooLarge")
        ELSE IF lower(f.ext) \notin supported_extensions THEN Raise(r2, "UnsupportedExtension")
        ELSE r2

\* The three checks made before probing.
file_checks(f, max_file_size_mb, supported_extensions) ==
    LET r0 == Checked(Start(f), "exists")
        r1 == Checked(r0, "extension")
        r2 == Checked(r1, "size")
    IN  IF ~f.exists THEN Raise(r0, "FileNotFound")
        ELSE IF lower(f.ext) \notin supported_extensions THEN Raise(r1, "UnsupportedExtension")
        ELSE IF f.size > max_file_size_mb * BytesPerMB THEN Raise(r2, "FileTooLarge")
        ELSE r2

\* GroqTranscriber._get_audio_details
_get_audio_details(f) ==
    LET r == file_checks(f, MAX_FILE_SIZE_MB, SUPPORTED_EXTENSIONS)
    IN  IF r.err # "none" THEN r
        ELSE [probe_chain(f, lower(f.ext), Checked(r, "probe")) EXCEPT !.returned = TRUE]

\* _validate_audio_file without its minimum-length test.
_validate_audio_file_unchecked(f) ==
    _get_audio_details(f)

\* GroqTranscriber._validate_audio_file
_validate_audio_file(f) ==
    LET r == _get_audio_details(f)
    IN  IF r.err # "none" THEN r
        ELSE IF r.details.duration < MIN_FILE_LENGTH_MS
        THEN Raise(Checked(r, "min_duration"), "FileTooShort")
        ELSE Checked(r, "min_duration")

\* utils.validate_audio_file
validate_audio_file(f, max_file_size_mb, min_file_length_ms, supported_extensions) ==
    LET r == file_checks(f, max_file_size_mb, supported_extensions)
        p == probe_chain(f, lower(f.ext), Checked(r, "probe"))
    IN  IF r.err # "none" THEN r
        ELSE IF p.returned THEN p
        ELSE IF p.details.duration < min_file_length_ms
        THEN Raise(Checked(p, "min_duration"), "FileTooShort")
        ELSE [Checked(p, "min_duration") EXCEPT !.returned = TRUE]

\* ------------------------------------------------------------ the client
\* A value Python treats as true in `api_key or ...` / `if not api_key`.
Keys == {"unset", "", "gsk_key"}

Truthy(k) ==
    k \notin {"unset", ""}

\* __init__ with the model test in front of the credential test.
__init__model_first(api_key, getenv_key, model) ==
    LET key == IF Truthy(api_key) THEN api_key ELSE getenv_key
    IN  IF model \notin SUPPORTED_MODELS
        THEN [err |-> "UnsupportedModel", api_key |-> key, model |-> "none"]
        ELSE IF ~Truthy(key) THEN [err |-> "MissingCredential", api_key |-> key, model |-> "none"]
        ELSE [err |-> "none", api_key |-> key, model |-> model]

\* GroqTranscriber.__init__: the credential, then the model.
__init__(api_key, getenv_key, model) ==
    LET key == IF Truthy(api_key) THEN api_key ELSE getenv_key
    IN  IF ~Truthy(key) THEN [err |-> "MissingCredential", api_key |-> key, model |-> "none"]
        ELSE IF model \notin SUPPORTED_MODELS
        THEN [err |-> "UnsupportedModel", api_key |-> key, model |-> "none"]
        ELSE [err |-> "none", api_key |-> key, model |-> model]

\* What requests.post can produce: a transport failure, or a response with a
\* status and a body.  The body is a JSON object, another JSON value, or text
\* that is not JSON; it transcribes the uploaded file `of`.
BodyKinds == {"object", "scalar", "not_json"}

NoResponse == [kind |-> "none"]

Responses(of) ==
    {[kind |-> "transport_error"]}
      \cup {[kind |-> "response", status |-> 200, body |-> b, of |-> of] : b \in BodyKinds}
      \cup {[kind |-> "response", status |-> 500, body |-> "not_json", of |-> of]}

NoReturn == [kind |-> "none"]

Returned(v) == [kind |-> "result", value |-> v]

Raised(e) == [kind |-> "error", err |-> e]

\* The try block of transcribe: the status check, then response.json().
handle_response(resp) ==
    IF resp.kind = "transport_error" THEN Raised("NetworkError")
    ELSE IF resp.status # 200 THEN Raised("ApiError")
    ELSE IF resp.body = "not_json" THEN Raised("MalformedResponse")
    ELSE Returned([body |-> resp.body, of |-> resp.of])

\* A close placed after response.json() instead of in a finally block.
close_on_success_only(h, outcome) ==
    IF outcome.kind = "result" THEN "closed" ELSE h

\* The finally block of transcribe: files["file"][1].close().
finally_close(h, outcome) ==
    "closed"

\* ----------------------------------------------------------- the exporter
\* utils.export_transcription: the content, or the error raised.  dict.get
\* exists on a JSON object only.
export_transcription(transcription, output_format) ==
    IF output_format = "json" THEN [err |-> "none", content |-> <<"dumps", transcription>>]
    ELSE IF output_format = "text"
    THEN IF transcription.body = "object"
         THEN [err |-> "none", content |-> <<"text", transcription.of>>]
         ELSE [err |-> "AttributeError", content |-> <<>>]
    ELSE [err |-> "UnsupportedExportFormat", content |-> <<>>]

\* ------------------------------------------------------ the command surface
\* -o/--output: not given, an existing directory, an existing regular file, or
\* a path that does not exist yet.
OutputPaths == {"none", "dir", "file", "new"}

\* os.path.splitext(os.path.basename(audio_file))[0] of the i-th input path.
base_name(i) ==
    <<"stem", i>>

\* f"{base_name}_transcript.{response_format}", joined to output_path when
\* that is a directory.
derived_name(dir, i, fmt) ==
    [dir |-> dir, name |-> <<base_name(i), "_transcript.", fmt>>]

\* "Determine output path" of transcribe_cli; isdir is os.path.isdir(output_path).
output_file(output_path, isdir, i, fmt) ==
    IF output_path # "none"
    THEN IF isdir THEN derived_name(output_path, i, fmt)
         ELSE [dir |-> "", name |-> <<output_path>>]
    ELSE derived_name("", i, fmt)

NoFile == [exists |-> FALSE, ext |-> "", size |-> 0, sfOpen |-> FALSE, mu |-> "raise",
           wavOpen |-> FALSE, frames |-> 0, rate |-> 0, channels |-> 1]

NoVal == [err |-> "unset", details |-> DefaultDetails(NoFile), checks |-> <<>>,
          probed |-> <<>>, log |-> <<>>, returned |-> FALSE]

VARIABLES
    entry,            \* the entry point running: "cli", "lib" or "validate"
    pc,               \* the statement about to run
    status,           \* "running", or how the entry point ended
    env_key,          \* os.getenv('GROQ_API_KEY')
    arg_key,          \* the api_key argument of GroqTranscriber(...)
    model,            \* the model argument
    transcriber,      \* the constructed GroqTranscriber, or its failure
    n,                \* the number of input paths
    i,                \* the position in the input paths (1-based)
    cur,              \* the file at the i-th path
    response_format,
    validate_only,
    output_path,
    out_state,        \* what output_path is on disk: "dir", "file", "absent"
    max_mb,           \* max_file_size_mb given to utils.validate_audio_file
    uval,             \* the outcome of utils.validate_audio_file for cur
    tval,             \* the outcome of _validate_audio_file for cur
    handle,           \* the upload handle of this transcribe call
    posts,            \* POSTs issued by this transcribe call
    response,         \* what requests.post produced
    tret,             \* how this transcribe call ended
    attempted,        \* the positions processing has started for, in order
    running,          \* the positions whose transcribe call has started and not ended
    results,          \* batch_transcribe's list
    returned,         \* the positions whose transcribe call returned a result (cli)
    written,          \* the files written by the exporter
    errors            \* the per-file errors echoed by transcribe_cli

vars == <<entry, pc, status, env_key, arg_key, model, transcriber, n, i, cur,
          response_format, validate_only, output_path, out_state, max_mb, uval, tval,
          handle, posts, response, tret, attempted, running, results, returned,
          written, errors>>

config == <<entry, env_key, arg_key, model, n, response_format, validate_only,
            output_path, max_mb>>

call == <<handle, posts, response, tret>>

NoTranscriber == [err |-> "unset", api_key |-> "unset", model |-> "none"]

Init ==
    /\ entry \in {"cli", "lib", "validate"}
    /\ pc = IF entry = "cli" THEN "cli_key" ELSE IF entry = "lib" THEN "lib_init" ELSE "validate"
    /\ status = "running"
    /\ arg_key \in (IF entry = "lib" THEN {"unset", "gsk_key"} ELSE {"unset"})
    /\ env_key \in (IF entry = "validate" \/ Truthy(arg_key) THEN {"unset"} ELSE Keys)
    /\ model \in (IF entry = "lib" THEN {"whisper-large-v3", "whisper-1"} ELSE {"whisper-large-v3"})
    /\ transcriber = NoTranscriber
    /\ n \in (IF entry = "validate" THEN {1} ELSE 0..MaxFiles)
    /\ i = 1
    /\ cur = NoFile
    /\ response_format \in (IF entry = "cli" THEN CLI_FORMATS
                            ELSE IF entry = "lib" THEN SUPPORTED_FORMATS \cup {"srt"}
                            ELSE {"verbose_json"})
    /\ validate_only \in (IF entry = "cli" THEN BOOLEAN ELSE {FALSE})
    /\ output_path \in (IF entry = "cli" THEN OutputPaths ELSE {"none"})
    /\ out_state = IF output_path \in {"dir", "file"} THEN output_path ELSE "absent"
    /\ max_mb \in (IF entry = "validate" THEN {MAX_FILE_SIZE_MB, MAX_FILE_SIZE_MB - 1}
                   ELSE {MAX_FILE_SIZE_MB})
    /\ uval = NoVal
    /\ tval = NoVal
    /\ handle = "none"
    /\ posts = 0
    /\ response = NoResponse
    /\ tret = NoReturn
    /\ attempted = <<>>
    /\ running = {}
    /\ results = <<>>
    /\ returned = {}
    /\ written = <<>>
    /\ errors = <<>>

\* ------------------------------------------------------------ transcribe
\* The caller's continuation once transcribe has returned or raised.
AfterTranscribe ==
    IF entry = "cli" THEN "cli_after" ELSE "batch_after"

\* self._validate_audio_file(audio_path), the first statement of transcribe.
TValidate ==
    /\ pc = "t_validate"
    /\ tval' = _validate_audio_file(cur)
    /\ IF tval'.err # "none"
       THEN /\ tret' = Raised(tval'.err)
            /\ running' = running \ {i}
            /\ pc' = AfterTranscribe
       ELSE /\ pc' = "t_format"
            /\ UNCHANGED <<tret, running>>
    /\ UNCHANGED <<config, status, transcriber, i, cur, out_state, uval, handle, posts,
                   response, attempted, results, returned, written, errors>>

\* transcribe without the response-format test.
format_unchecked(fmt) ==
    TRUE

\* response_format in self.SUPPORTED_FORMATS
format_supported(fmt) ==
    fmt \in SUPPORTED_FORMATS

\* if response_format not in self.SUPPORTED_FORMATS: raise ValueError
TCheckFormat ==
    /\ pc = "t_format"
    /\ IF ~format_supported(response_format)
       THEN /\ tret' = Raised("UnsupportedFormat")
            /\ running' = running \ {i}
            /\ pc' = AfterTranscribe
       ELSE /\ pc' = "t_open"
            /\ UNCHANGED <<tret, running>>
    /\ UNCHANGED <<config, status, transcriber, i, cur, out_state, uval, tval, handle,
                   posts, response, attempted, results, returned, written, errors>>

\* files = {"file": (basename, open(audio_path, "rb"), "audio/mpeg")}
TOpen ==
    /\ pc = "t_open"
    /\ handle' = "open"
    /\ pc' = "t_post"
    /\ UNCHANGED <<config, status, transcriber, i, cur, out_state, uval, tval, posts,
                   response, tret, attempted, running, results, returned, written, errors>>

\* A POST that is sent again once after a transport failure.
TPost_retry ==
    /\ pc = "t_post"
    /\ posts' = posts + 1
    /\ \E resp \in Responses(i) :
          /\ response' = resp
          /\ pc' = IF resp.kind = "transport_error" /\ posts = 0 THEN "t_post"
                   ELSE "t_response"
    /\ UNCHANGED <<config, status, transcriber, i, cur, out_state, uval, tval, handle,
                   tret, attempted, running, results, returned, written, errors>>

\* requests.post(self.base_url, headers=headers, data=payload, files=files)
TPost ==
    /\ pc = "t_post"
    /\ posts' = posts + 1
    /\ \E resp \in Responses(i) : response' = resp
    /\ pc' = "t_response"
    /\ UNCHANGED <<config, status, transcriber, i, cur, out_state, uval, tval, handle,
                   tret, attempted, running, results, returned, written, errors>>

\* The rest of the try statement: the status check, response.json(), the except
\* clauses that print and re-raise, and the finally block.
TResponse ==
    /\ pc = "t_response"
    /\ tret' = handle_response(response)
    /\ handle' = finally_close(handle, tret')
    /\ running' = running \ {i}
    /\ pc' = AfterTranscribe
    /\ UNCHANGED <<config, status, transcriber, i, cur, out_state, uval, tval, posts,
                   response, attempted, results, returned, written, errors>>

\* The state of a transcribe call about to start.
EnterTranscribe ==
    /\ handle' = "none"
    /\ posts' = 0
    /\ response' = NoResponse
    /\ tret' = NoReturn
    /\ tval' = NoVal

\* ------------------------------------------------------- batch_transcribe
\* GroqTranscriber(api_key, model) in a program using the library.
LibConstruct ==
    /\ pc = "lib_init"
    /\ transcriber' = __init__(arg_key, env_key, model)
    /\ IF transcriber'.err # "none"
       THEN pc' = "done" /\ status' = "raised"
       ELSE pc' = "batch_loop" /\ UNCHANGED status
    /\ UNCHANGED <<config, i, cur, out_state, uval, tval, call, attempted, running,
                   results, returned, written, errors>>

\* A result put at the front of the list.
collect_front(rs, v) ==
    <<v>> \o rs

\* Where the comprehension puts the result of one path.
collect(rs, v) ==
    Append(rs, v)

\* The comprehension's next element: the next path, or the end of the list.
\* The paths need not exist.
BatchNext ==
    /\ pc = "batch_loop"
    /\ IF i > n
       THEN /\ pc' = "done"
            /\ status' = "returned"
            /\ UNCHANGED <<cur, tval, call, attempted, running>>
       ELSE /\ \E f \in FileKinds : cur' = f
            /\ attempted' = Append(attempted, i)
            /\ running' = running \cup {i}
            /\ EnterTranscribe
            /\ pc' = "t_validate"
            /\ UNCHANGED status
    /\ UNCHANGED <<config, transcriber, i, out_state, uval, results, returned, written,
                   errors>>

\* transcribe has ended: its result joins the list, its exception leaves
\* batch_transcribe.
BatchAfter ==
    /\ pc = "batch_after"
    /\ IF tret.kind = "error"
       THEN /\ pc' = "done"
            /\ status' = "raised"
            /\ UNCHANGED <<results, i>>
       ELSE /\ results' = collect(results, tret.value)
            /\ i' = i + 1
            /\ pc' = "batch_loop"
            /\ UNCHANGED status
    /\ UNCHANGED <<config, transcriber, cur, out_state, uval, tval, call, attempted,
                   running, returned, written, errors>>

\* ---------------------------------------------------- validate_audio_file
\* One call of utils.validate_audio_file on any file, with the default or a
\* smaller size limit.
ValidateCall ==
    /\ pc = "validate"
    /\ \E f \in FileKinds :
          /\ cur' = f
          /\ uval' = validate_audio_file(f, max_mb, MIN_FILE_LENGTH_MS, SUPPORTED_EXTENSIONS)
    /\ attempted' = Append(attempted, i)
    /\ pc' = "done"
    /\ status' = IF uval'.err = "none" THEN "returned" ELSE "raised"
    /\ UNCHANGED <<config, transcriber, i, out_state, tval, call, running, results,
                   returned, written, errors>>

\* ---------------------------------------------------------- transcribe_cli
\* api_key = os.getenv('GROQ_API_KEY'); if not api_key: sys.exit(1)
CliCheckKey ==
    /\ pc = "cli_key"
    /\ IF ~Truthy(env_key)
       THEN pc' = "done" /\ status' = "exit1"
       ELSE pc' = "cli_files" /\ UNCHANGED status
    /\ UNCHANGED <<config, transcriber, i, cur, out_state, uval, tval, call, attempted,
                   running, results, returned, written, errors>>

\* if not audio_files: sys.exit(1)
CliCheckFiles ==
    /\ pc = "cli_files"
    /\ IF n = 0
       THEN pc' = "done" /\ status' = "exit1"
       ELSE pc' = "cli_makedirs" /\ UNCHANGED status
    /\ UNCHANGED <<config, transcriber, i, cur, out_state, uval, tval, call, attempted,
                   running, results, returned, written, errors>>

\* if output_path and len(audio_files) > 1: os.makedirs(output_path, exist_ok=True).
\* makedirs raises FileExistsError, caught nowhere, when the path is a regular file.
CliMakeDirs ==
    /\ pc = "cli_makedirs"
    /\ IF output_path # "none" /\ n > 1
       THEN IF out_state = "file"
            THEN pc' = "done" /\ status' = "crash" /\ UNCHANGED out_state
            ELSE pc' = "cli_init" /\ out_state' = "dir" /\ UNCHANGED status
       ELSE pc' = "cli_init" /\ UNCHANGED <<status, out_state>>
    /\ UNCHANGED <<config, transcriber, i, cur, uval, tval, call, attempted, running,
                   results, returned, written, errors>>

\* transcriber = GroqTranscriber(api_key=api_key, model=model); ValueError exits.
CliConstruct ==
    /\ pc = "cli_init"
    /\ transcriber' = __init__(env_key, env_key, model)
    /\ IF transcriber'.err # "none"
       THEN pc' = "done" /\ status' = "exit1"
       ELSE pc' = "cli_loop" /\ UNCHANGED status
    /\ UNCHANGED <<config, i, cur, out_state, uval, tval, call, attempted, running,
                   results, returned, written, errors>>

\* for audio_file in audio_files.  click.Path(exists=True) has refused the
\* paths that do not exist before the command body runs.
CliNextFile ==
    /\ pc = "cli_loop"
    /\ IF i > n
       THEN /\ pc' = "done"
            /\ status' = "exit0"
            /\ UNCHANGED <<cur, uval, tval, call, attempted>>
       ELSE /\ \E f \in ExistingFiles : cur' = f
            /\ attempted' = Append(attempted, i)
            /\ uval' = NoVal
            /\ EnterTranscribe
            /\ pc' = "cli_validate"
            /\ UNCHANGED status
    /\ UNCHANGED <<config, transcriber, i, out_state, running, results, returned,
                   written, errors>>

\* An except clause that echoes the error and exits.
except_exit(errs, idx, e) ==
    [errors |-> Append(errs, [idx |-> idx, err |-> e]), pc |-> "done", status |-> "exit1"]

\* What the except clause of the loop does with an exception of the loop body.
except_continue(errs, idx, e) ==
    [errors |-> Append(errs, [idx |-> idx, err |-> e]), pc |-> "cli_loop", status |-> "running"]

\* audio_details = validate_audio_file(audio_file), the echo of the details,
\* and the validate_only test.
CliValidate ==
    /\ pc = "cli_validate"
    /\ uval' = validate_audio_file(cur, MAX_FILE_SIZE_MB, MIN_FILE_LENGTH_MS,
                                   SUPPORTED_EXTENSIONS)
    /\ IF uval'.err # "none"
       THEN LET x == except_continue(errors, i, uval'.err)
            IN  /\ errors' = x.errors
                /\ pc' = x.pc
                /\ status' = x.status
                /\ i' = i + 1
                /\ UNCHANGED running
       ELSE IF validate_only
       THEN /\ i' = i + 1
            /\ pc' = "cli_loop"
            /\ UNCHANGED <<errors, running, status>>
       ELSE /\ running' = running \cup {i}
            /\ pc' = "t_validate"
            /\ UNCHANGED <<errors, i, status>>
    /\ UNCHANGED <<config, transcriber, cur, out_state, tval, call, attempted, results,
                   returned, written>>

\* After transcriber.transcribe(...): its exception goes to the except clause;
\* its result goes through "Determine output path" and export_transcription,
\* whose exception goes to the except clause too.
CliExport ==
    /\ pc = "cli_after"
    /\ IF tret.kind = "error"
       THEN LET x == except_continue(errors, i, tret.err)
            IN  /\ errors' = x.errors
                /\ pc' = x.pc
                /\ status' = x.status
                /\ UNCHANGED <<returned, written, out_state>>
       ELSE LET target == output_file(output_path, out_state = "dir", i, response_format)
                e == export_transcription(tret.value, response_format)
            IN  /\ returned' = returned \cup {i}
                /\ IF e.err # "none"
                   THEN LET x == except_continue(errors, i, e.err)
                        IN  /\ errors' = x.errors
                            /\ pc' = x.pc
                            /\ status' = x.status
                            /\ UNCHANGED <<written, out_state>>
                   ELSE /\ written' = Append(written, [idx |-> i, file |-> target,
                                                       content |-> e.content])
                        /\ out_state' = IF target.dir = "" /\ output_path # "none"
                                        THEN "file" ELSE out_state
                        /\ pc' = "cli_loop"
                        /\ UNCHANGED <<errors, status>>
    /\ i' = i + 1
    /\ UNCHANGED <<config, transcriber, cur, uval, tval, call, attempted, running,
                   results>>

Next ==
    \/ CliCheckKey
    \/ CliCheckFiles
    \/ CliMakeDirs
    \/ CliConstruct
    \/ CliNextFile
    \/ CliValidate
    \/ CliExport
    \/ TValidate
    \/ TCheckFormat
    \/ TOpen
    \/ TPost
    \/ TResponse
    \/ LibConstruct
    \/ BatchNext
    \/ BatchAfter
    \/ ValidateCall

Spec == Init /\ [][Next]_vars

\* The interpreter runs the next statement for as long as there is one.
FairSpec == Spec /\ WF_vars(Next)

\* ------------------------------------------------------------- the claims
SizeLimit == MAX_FILE_SIZE_MB * BytesPerMB

\* A transcribe call has returned or raised.
TranscribeEnded ==
    pc \in {"cli_after", "batch_after"}

\* <<1, ..., k>>
FirstPaths(k) ==
    [j \in 1..k |-> j]

\* C1: a POST has been issued in this transcribe call only if, in this call, the
\* file passed every policy check: it exists, its extension is allowed, its size
\* is at most MAX_FILE_SIZE_MB and its duration is at least
\* MIN_FILE_LENGTH_SECONDS.
C1_PostOnlyAfterValidation ==
    posts > 0 =>
        /\ tval.err = "none"
        /\ tval.checks = <<"exists", "extension", "size", "probe", "min_duration">>
        /\ cur.exists
        /\ lower(cur.ext) \in SUPPORTED_EXTENSIONS
        /\ cur.size <= SizeLimit
        /\ tval.details.duration >= MIN_FILE_LENGTH_MS

C1_Witness ==
    /\ posts = 1
    /\ pc = "t_response"
    /\ tval.details.duration = MIN_FILE_LENGTH_MS

\* The checks in the order of the specification, and the error of each.
CheckOrder == <<"exists", "extension", "size", "probe", "min_duration">>

ErrorOfCheck(c) ==
    CASE c = "exists" -> "FileNotFound"
      [] c = "extension" -> "UnsupportedExtension"
      [] c = "size" -> "FileTooLarge"
      [] c = "min_duration" -> "FileTooShort"
      [] OTHER -> "no error"

\* One validation outcome v of file f under the size limit `limit` (bytes)
\* respects the order of the checks.
InCheckOrder(v, f, limit) ==
    /\ Len(v.checks) <= Len(CheckOrder)
    /\ \A k \in DOMAIN v.checks : v.checks[k] = CheckOrder[k]
    /\ v.err # "none" => v.checks # <<>> /\ v.err = ErrorOfCheck(v.checks[Len(v.checks)])
    /\ ~f.exists => v.err = "FileNotFound"
    /\ f.exists /\ lower(f.ext) \notin SUPPORTED_EXTENSIONS => v.err = "UnsupportedExtension"
    /\ f.exists /\ lower(f.ext) \in SUPPORTED_EXTENSIONS /\ f.size > limit
          => v.err = "FileTooLarge" /\ v.probed = <<>>
    /\ v.probed # <<>> => f.exists /\ lower(f.ext) \in SUPPORTED_EXTENSIONS /\ f.size <= limit

C3_MinDurationUniversal ==
    /\ uval.err = "none" => uval.details.duration >= MIN_FILE_LENGTH_MS
    /\ tval.err = "none" => tval.details.duration >= MIN_FILE_LENGTH_MS

\* C4: every file whose transcribe call returned a result to transcribe_cli has
\* a transcript written, named <basename>_transcript.<format> when no output
\* path is given or the output path is a directory, and no per-file error.
C4_ResultIsWritten ==
    \A j \in returned :
        /\ \E k \in DOMAIN written :
              /\ written[k].idx = j
              /\ (output_path = "none" \/ out_state = "dir")
                    => written[k].file.name = <<base_name(j), "_transcript.", response_format>>
        /\ \A k \in DOMAIN errors : errors[k].idx # j

\* C5: once a transcribe call has ended, on any exit path, the handle it opened
\* for the upload is closed.
C5_HandleClosed ==
    /\ (TranscribeEnded \/ pc \in {"cli_loop", "batch_loop", "done"}) => handle # "open"
    /\ TranscribeEnded /\ posts > 0 => handle = "closed"

C5_Witness ==
    /\ TranscribeEnded
    /\ tret = Raised("NetworkError")
    /\ handle = "closed"

\* C6: transcribe with a response format outside {json, verbose_json, text} on a
\* file that passes validation fails with UnsupportedFormat, with no network
\* call attempted and the file not opened for upload.
C6_UnsupportedFormat ==
    /\ tval.err = "none" /\ response_format \notin {"json", "verbose_json", "text"}
          => /\ pc \notin {"t_open", "t_post", "t_response"}
             /\ posts = 0
             /\ handle = "none"
             /\ TranscribeEnded => tret = Raised("UnsupportedFormat")
    /\ tret = Raised("UnsupportedFormat")
          => posts = 0 /\ handle = "none" /\ response = NoResponse

C6_Witness ==
    /\ TranscribeEnded
    /\ response_format = "srt"
    /\ tret = Raised("UnsupportedFormat")

\* C7: transcribe_cli reports a per-file error and goes on: the files are
\* attempted in input order, a run that reached the loop ends only after every
\* file was attempted, and it does end.
C7_Attempts ==
    entry = "cli" =>
        /\ attempted = FirstPaths(Len(attempted))
        /\ Len(attempted) <= n
        /\ \A k \in DOMAIN errors : errors[k].idx \in 1..Len(attempted)
        /\ pc = "done" /\ transcriber.err = "none"
              => status = "exit0" /\ attempted = FirstPaths(n)

C7_EveryFileAttempted ==
    /\ []C7_Attempts
    /\ (entry = "cli" /\ pc = "cli_loop") ~> (pc = "done" /\ attempted = FirstPaths(n))

C7_Witness ==
    /\ entry = "cli"
    /\ status = "exit0"
    /\ n >= 2
    /\ Len(errors) >= 1
    /\ errors[1].idx = 1
    /\ attempted = FirstPaths(n)

\* C8: batch_transcribe returns one result per path, result k being that of
\* path k; the calls run one after the other; a failing call ends
\* batch_transcribe with its error and no later path is attempted.
C8_Batch ==
    entry = "lib" =>
        /\ \A k \in DOMAIN results : results[k].of = k
        /\ Cardinality(running) <= 1
        /\ \A j \in running : j = i /\ Len(attempted) = i /\ Len(results) = i - 1
        /\ attempted = FirstPaths(Len(attempted))
        /\ status = "returned" => Len(results) = n /\ attempted = FirstPaths(n)
        /\ status = "raised" /\ transcriber.err = "none"
              => /\ tret.kind = "error"
                 /\ attempted = FirstPaths(i)
                 /\ Len(results) = i - 1
        /\ pc = "batch_loop" => tret.kind # "error"

C8_Witness ==
    /\ entry = "lib"
    /\ status = "returned"
    /\ n >= 2
    /\ Len(results) = n

\* C9: a transcribe call makes at most one POST: one when validation and the
\* format check pass, none otherwise; a transport failure or a non-success
\* status is raised to the caller, with no second call.
C9_OnePost ==
    /\ posts <= 1
    /\ TranscribeEnded =>
          /\ posts = (IF tval.err = "none" /\ response_format \in {"json", "verbose_json", "text"}
                      THEN 1 ELSE 0)
          /\ response.kind = "transport_error" => tret = Raised("NetworkError")
          /\ response.kind = "response" /\ response.status # 200 => tret = Raised("ApiError")

C9_Witness ==
    /\ TranscribeEnded
    /\ posts = 1
    /\ response.kind = "response"
    /\ response.status = 500
    /\ tret = Raised("ApiError")

\* C10: with no API credential, transcribe_cli exits with a failure status
\* before any file is validated, any network call is made or any output is
\* written, and GroqTranscriber construction fails with MissingCredential.
C10_MissingCredential ==
    /\ entry = "cli" /\ env_key \in {"unset", ""}
          => /\ pc \in {"cli_key", "done"}
             /\ pc = "done" => status = "exit1"
             /\ attempted = <<>> /\ uval = NoVal /\ tval = NoVal
             /\ posts = 0 /\ written = <<>>
    /\ entry = "lib" /\ arg_key \in {"unset", ""} /\ env_key \in {"unset", ""}
          => /\ pc \in {"lib_init", "done"}
             /\ pc = "done" => status = "raised" /\ transcriber.err = "MissingCredential"
             /\ attempted = <<>> /\ posts = 0

C10_Witness ==
    /\ entry = "cli"
    /\ env_key = ""
    /\ n >= 1
    /\ status = "exit1"

\* The probing strategies in the order of the specification.
StrategyOrder == <<"soundfile", "mutagen", "wave">>

\* Strategy s obtains the details of file f.
Yields(s, f) ==
    CASE s = "soundfile" -> f.sfOpen /\ f.rate # 0
      [] s = "mutagen" -> f.mu = "info"
      [] s = "wave" -> f.wavOpen /\ f.rate # 0
      [] OTHER -> FALSE

\* The strategies the Inspector is to attempt on f when none succeeds.
StrategiesFor(f) ==
    IF lower(f.ext) = ".wav" THEN StrategyOrder ELSE SubSeq(StrategyOrder, 1, 2)

\* The details a succeeding strategy reports for f.
DetailsOf(f) ==
    [duration |-> Duration(f), channels |-> f.channels, sample_rate |-> f.rate,
     file_size |-> f.size]

\* C11: _get_audio_details tries soundfile, mutagen, wave (wave for .wav only)
\* in that order and returns the details of the first strategy that succeeds;
\* when every attempted strategy fails it returns exactly duration 0,
\* channels 1, sample rate 0 and the file size, with no partial value left by
\* a strategy that failed part-way.
C11_Inspector ==
    tval.returned =>
        /\ Len(tval.probed) <= Len(StrategiesFor(cur))
        /\ \A k \in DOMAIN tval.probed : tval.probed[k] = StrategyOrder[k]
        /\ \A k \in DOMAIN tval.probed : k < Len(tval.probed) => ~Yields(tval.probed[k], cur)
        /\ IF \E k \in DOMAIN StrategiesFor(cur) : Yields(StrategiesFor(cur)[k], cur)
           THEN /\ Yields(tval.probed[Len(tval.probed)], cur)
                /\ tval.details = DetailsOf(cur)
           ELSE /\ tval.probed = StrategiesFor(cur)
                /\ tval.details = DefaultDetails(cur)

\* The failure message printed for a strategy.
FailureMessage(s) ==
    CASE s = "soundfile" -> "Soundfile method failed"
      [] s = "mutagen" -> "Mutagen method failed"
      [] OTHER -> "Wave method failed"

\* Every attempted strategy that did not obtain the details of f has its
\* failure message in the log of validation outcome v.
FailuresLogged(v, f) ==
    \A k \in DOMAIN v.probed :
        ~Yields(v.probed[k], f)
            => \E m \in DOMAIN v.log : v.log[m] = FailureMessage(v.probed[k])

\* C12: whenever a validator moves on from a probing strategy to the next one
\* or to the fallback, a failure message for that strategy has been printed,
\* also when mutagen gives no usable result without raising.
C12_FailuresLogged ==
    /\ uval.err # "unset" => FailuresLogged(uval, cur)
    /\ tval.err # "unset" => FailuresLogged(tval, cur)
====
